---- MODULE Spec2Model ----
(***************************************************************************)
(* The quantile ("pinball") regression objective of                        *)
(* src/src/objective/quantile_obj.cu: class QuantileRegression.            *)
(*                                                                         *)
(* Three specifications share the module's variables:                      *)
(*   SpecCfg   Configure / SaveConfig / LoadConfig / Targets on one        *)
(*             instance (and on freshly constructed ones);                 *)
(*   SpecGrad  GetGradient applied to drawn arguments;                     *)
(*   SpecDist  InitEstimation run by two workers on their shards, joined   *)
(*             by the global-sum reduction.                                *)
(*                                                                         *)
(* float/double values are modelled as exact rationals <<n, d>> in lowest  *)
(* terms with d > 0; NaN is <<0, 0>> and is absorbing, as in IEEE-754.     *)
(***************************************************************************)
EXTENDS Integers, Sequences, FiniteSets, TLC

VARIABLES
    param_,      \* param_.quantile_alpha          (quantile_obj.cu:34)
    alpha_,      \* the cached level vector alpha_ (quantile_obj.cu:35)
    doc,         \* the Json document last written by SaveConfig
    docFrom,     \* the instance state (param_, alpha_) SaveConfig wrote it from
    last,        \* the outcome of the last call on the configuration surface
    call,        \* the arguments of the GetGradient call
    out_gpair,   \* the caller's gradient buffer (*out_gpair)
    gres,        \* the outcome of the GetGradient call
    shard,       \* each worker's MetaInfo
    pc,          \* each worker's position in InitEstimation
    base_score,  \* each worker's *base_score buffer
    quantiles,   \* each worker's per-level local estimates, once computed
    dat,         \* each worker's contribution to the reduction, once made
    nsum,        \* how many times each worker has entered the reduction
    rc           \* the result code the reduction gave each worker

cfgVars  == <<param_, alpha_, doc, docFrom, last>>
gradVars == <<call, out_gpair, gres>>
distVars == <<shard, pc, base_score, quantiles, dat, nsum, rc>>
vars     == <<param_, alpha_, doc, docFrom, last, call, out_gpair, gres,
              shard, pc, base_score, quantiles, dat, nsum, rc>>

----------------------------------------------------------------------------
(* Bounds *)

MaxRows == 2        \* most rows of one MetaInfo

----------------------------------------------------------------------------
(* float arithmetic *)

NaN == <<0, 0>>

IsNaN(a) == a[2] = 0

Abs(x) == IF x < 0 THEN -x ELSE x

RECURSIVE GCD(_, _)
GCD(a, b) == IF b = 0 THEN a ELSE GCD(b, a % b)

Rat(n, d) ==
    IF d = 0 THEN NaN
    ELSE LET g == GCD(Abs(n), Abs(d))
             s == IF d < 0 THEN -1 ELSE 1
         IN  <<(s * n) \div g, (s * d) \div g>>

RInt(k) == <<k, 1>>

RAdd(a, b) == IF IsNaN(a) \/ IsNaN(b) THEN NaN
              ELSE Rat(a[1] * b[2] + b[1] * a[2], a[2] * b[2])

RNeg(a) == IF IsNaN(a) THEN NaN ELSE <<-a[1], a[2]>>

RSub(a, b) == RAdd(a, RNeg(b))

RMul(a, b) == IF IsNaN(a) \/ IsNaN(b) THEN NaN
              ELSE Rat(a[1] * b[1], a[2] * b[2])

RDiv(a, b) == IF IsNaN(a) \/ IsNaN(b) THEN NaN
              ELSE Rat(a[1] * b[2], a[2] * b[1])

\* a <= b; false when either is NaN
RLeq(a, b) == ~IsNaN(a) /\ ~IsNaN(b) /\ a[1] * b[2] <= b[1] * a[2]

RFloor(a) == a[1] \div a[2]

RECURSIVE RSumSeq(_)
RSumSeq(s) == IF s = <<>> THEN RInt(0) ELSE RAdd(Head(s), RSumSeq(Tail(s)))

Max(a, b) == IF a >= b THEN a ELSE b

----------------------------------------------------------------------------
(* QuantileLossParam and its Json form *)

\* The quantile_alpha lists the model draws from: proper lists of one to
\* three levels (order matters), the empty list, and lists holding a level
\* that is no number, which validation rejects.
LevelLists == {<<>>, <<<<1, 2>>>>, <<<<3, 4>>, <<1, 4>>>>, <<<<1, 4>>, <<1, 2>>, <<3, 4>>>>,
               <<NaN>>, <<<<1, 2>>, NaN>>}

\* Configure's args either carry a quantile_alpha list or do not mention it.
NoArg == [given |-> FALSE, levels |-> <<>>]
Args == {NoArg} \cup {[given |-> TRUE, levels |-> l] : l \in LevelLists}

\* param_.UpdateAllowUnknown(args): the fields args names are overwritten.
UpdateAllowUnknown(p, args) == IF args.given THEN args.levels ELSE p

\* param_.Validate(): the set is non-empty and every level is a number.
Validate(p) == p # <<>> /\ \A i \in 1..Len(p) : ~IsNaN(p[i])

\* One level as the text the document holds, and back.
FormatLevel(a) ==
    IF IsNaN(a) THEN "NaN"
    ELSE IF a = <<1, 4>> THEN "0.25"
    ELSE IF a = <<1, 2>> THEN "0.5"
    ELSE IF a = <<3, 4>> THEN "0.75"
    ELSE IF a = <<0, 1>> THEN "0"
    ELSE IF a = <<1, 1>> THEN "1"
    ELSE "?"

KnownLevels == {NaN, <<0, 1>>, <<1, 4>>, <<1, 2>>, <<3, 4>>, <<1, 1>>}

CanParseLevel(s) == \E a \in KnownLevels : FormatLevel(a) = s

ParseLevel(s) == CHOOSE a \in KnownLevels : FormatLevel(a) = s

\* ToJson(param_)
ToJson(p) == [quantile_alpha |-> [i \in 1..Len(p) |-> FormatLevel(p[i])]]

\* FromJson(in, &param_): ok is FALSE when an element does not parse, and
\* then the parameter is left as it was.
FromJson(j, p) ==
    LET txt == j.quantile_alpha
        good == \A i \in 1..Len(txt) : CanParseLevel(txt[i])
    IN  [ok |-> good,
         param |-> IF good THEN [i \in 1..Len(txt) |-> ParseLevel(txt[i])] ELSE p]

Name == "reg:quantileerror"

NoDoc == [present |-> FALSE, name |-> "", quantile_loss_param |-> ToJson(<<>>)]

\* The documents LoadConfig is handed: the one SaveConfig wrote, the same
\* with another objective's name tag, the same with an element that is no
\* number, and documents written elsewhere.
ForeignDocs ==
    {[present |-> TRUE, name |-> n, quantile_loss_param |-> [quantile_alpha |-> t]] :
        n \in {Name, "reg:squarederror"},
        t \in {<<"0.5">>, <<"0.75", "0.25">>, <<"abc">>, <<>>}}
InputDocs ==
    (IF doc.present
     THEN {doc, [doc EXCEPT !.name = "reg:squarederror"],
           [doc EXCEPT !.quantile_loss_param =
                [quantile_alpha |-> <<"abc">> \o doc.quantile_loss_param.quantile_alpha]]}
     ELSE {}) \cup ForeignDocs

----------------------------------------------------------------------------
(* MetaInfo *)

LabelValues == {0, 1}
LabelColCounts == {0, 1, 2}

\* info.weights_: absent, or one weight per row, one row weighing double.
WeightVectors(n) == {<<>>} \cup {[i \in 1..n |-> IF i = k THEN 2 ELSE 1] : k \in 1..n}

\* labels is column 0 of info.labels (empty when the tensor has no column);
\* weights is info.weights_, empty or one weight per row.
Infos(maxRows, colSet, shouldSet) ==
    UNION {
        {[num_row |-> n, labelCols |-> c, labels |-> l, weights |-> w,
          shouldHaveLabels |-> s] :
            l \in (IF c = 0 THEN {<<>>} ELSE [1..n -> LabelValues]),
            w \in WeightVectors(n),
            s \in shouldSet} :
        n \in 0..maxRows, c \in colSet}

NoInfo == [num_row |-> 0, labelCols |-> 0, labels |-> <<>>, weights |-> <<>>,
           shouldHaveLabels |-> FALSE]

----------------------------------------------------------------------------
(* Targets *)

\* Targets(info) on an instance with parameter p and cached levels a.
Targets_NoLabelCheck(p, a, info) ==
    IF Len(p) # Len(a) THEN [ok |-> FALSE, value |-> 0, err |-> "NotConfigured"]
    ELSE IF p = <<>> THEN [ok |-> FALSE, value |-> 0, err |-> "NotConfigured"]
    ELSE [ok |-> TRUE, value |-> Len(a) * Max(1, info.labelCols), err |-> ""]

Targets(p, a, info) ==
    IF Len(p) # Len(a) THEN [ok |-> FALSE, value |-> 0, err |-> "NotConfigured"]
    ELSE IF info.shouldHaveLabels /\ info.labelCols # 1
         THEN [ok |-> FALSE, value |-> 0, err |-> "UnsupportedShape"]
    ELSE IF p = <<>> THEN [ok |-> FALSE, value |-> 0, err |-> "NotConfigured"]
    ELSE [ok |-> TRUE, value |-> Len(a) * Max(1, info.labelCols), err |-> ""]

\* What Targets and GetGradient accept as a configured instance.
Configured(p, a) == Len(p) = Len(a) /\ a # <<>>

----------------------------------------------------------------------------
(* The configuration surface *)

\* in: "saved" the document SaveConfig wrote, "renamed" a document with
\* another name tag, "other" any other document.
NoLast == [op |-> "none", ok |-> TRUE, value |-> 0, info |-> NoInfo, in |-> "",
           fresh |-> FALSE]

GradIdle == /\ call = [preds |-> <<>>, info |-> NoInfo]
            /\ out_gpair = [shape |-> <<0, 0>>, data |-> <<>>]
            /\ gres = [called |-> FALSE, ok |-> TRUE, err |-> ""]

DistIdle == /\ shard = <<>>
            /\ pc = <<>>
            /\ base_score = <<>>
            /\ quantiles = <<>>
            /\ dat = <<>>
            /\ nsum = <<>>
            /\ rc = <<>>

InitCfg ==
    /\ param_ = <<>>
    /\ alpha_ = <<>>
    /\ doc = NoDoc
    /\ docFrom = [param |-> <<>>, alpha |-> <<>>]
    /\ last = NoLast
    /\ GradIdle
    /\ DistIdle

\* Configure(args)
Configure(args) ==
    LET p == UpdateAllowUnknown(param_, args)
        ok == Validate(p)
    IN  /\ param_' = p
        /\ alpha_' = IF ok THEN p ELSE alpha_
        /\ last' = [NoLast EXCEPT !.op = "Configure", !.ok = ok]
        /\ UNCHANGED <<doc, docFrom, gradVars, distVars>>

\* SaveConfig(&out)
SaveConfig ==
    /\ doc' = [present |-> TRUE, name |-> Name, quantile_loss_param |-> ToJson(param_)]
    /\ docFrom' = [param |-> param_, alpha |-> alpha_]
    /\ last' = [NoLast EXCEPT !.op = "SaveConfig"]
    /\ UNCHANGED <<param_, alpha_, gradVars, distVars>>

DocKind(in) == IF in.name # Name THEN "renamed"
               ELSE IF doc.present /\ in = doc THEN "saved" ELSE "other"

\* LoadConfig(in)
LoadConfig(in) ==
    LET nameOk == in.name = Name
        parsed == FromJson(in.quantile_loss_param, param_)
        ok == nameOk /\ parsed.ok
    IN  /\ param_' = IF nameOk THEN parsed.param ELSE param_
        /\ alpha_' = IF ok THEN parsed.param ELSE alpha_
        /\ last' = [NoLast EXCEPT !.op = "LoadConfig", !.ok = ok, !.in = DocKind(in),
                                  !.fresh = (param_ = <<>> /\ alpha_ = <<>>)]
        /\ UNCHANGED <<doc, docFrom, gradVars, distVars>>

\* new QuantileRegression(): the registry's factory makes a fresh instance.
New ==
    /\ param_' = <<>>
    /\ alpha_' = <<>>
    /\ last' = [NoLast EXCEPT !.op = "New"]
    /\ UNCHANGED <<doc, docFrom, gradVars, distVars>>

\* A call of Targets(info) by the trainer.
TargetsCall(info) ==
    LET r == Targets(param_, alpha_, info)
    IN  /\ last' = [NoLast EXCEPT !.op = "Targets", !.ok = r.ok, !.value = r.value,
                                  !.info = info]
        /\ UNCHANGED <<param_, alpha_, doc, docFrom, gradVars, distVars>>

TargetInfos == Infos(0, LabelColCounts, BOOLEAN)

NextCfg ==
    \/ \E args \in Args : Configure(args)
    \/ SaveConfig
    \/ \E in \in InputDocs : LoadConfig(in)
    \/ New
    \/ \E info \in TargetInfos : TargetsCall(info)

SpecCfg == InitCfg /\ [][NextCfg]_vars

----------------------------------------------------------------------------
(* GetGradient *)

\* common::OptionalWeights::operator[]: 1 when no weights are given.
Weight(weights, i) == IF weights = <<>> THEN RInt(1) ELSE RInt(weights[i])

\* predt(i, j) of the row-major view MakeTensorView(ctx_, &preds, num_row_, n_targets)
Predt(preds, n_targets, i, j) == preds[(i - 1) * n_targets + j]

\* The body of the element-wise kernel for cell (i, j): the GradientPair <<g, h>>.
GradientKernel_StrictTie(a, preds, n_targets, info, i, j) ==
    LET d == Predt(preds, n_targets, i, j) - info.labels[i]
        h == Weight(info.weights, i)
    IN  IF d > 0
        THEN <<RMul(RSub(RInt(1), a[j]), Weight(info.weights, i)), h>>
        ELSE <<RMul(RNeg(a[j]), Weight(info.weights, i)), h>>

GradientKernel(a, preds, n_targets, info, i, j) ==
    LET d == Predt(preds, n_targets, i, j) - info.labels[i]
        h == Weight(info.weights, i)
    IN  IF d >= 0
        THEN <<RMul(RSub(RInt(1), a[j]), Weight(info.weights, i)), h>>
        ELSE <<RMul(RNeg(a[j]), Weight(info.weights, i)), h>>

Grid(rows, cols) == (1..rows) \X (1..cols)

\* out_gpair->Reshape(rows, cols): the cells are value-initialised.
Reshape(rows, cols) ==
    [shape |-> <<rows, cols>>,
     data |-> [c \in Grid(rows, cols) |-> <<RInt(0), RInt(0)>>]]

\* GetGradient(preds, info, iter, out_gpair) on an instance with parameter p
\* and cached levels a: the outcome and the buffer it leaves.  The MetaInfo
\* drawn are those CheckInitInputs accepts, so iter plays no part.
GetGradientResult_ReshapeEarly(p, a, preds, info, out) ==
    LET t == Targets(p, a, info)
        fail(e, o) == [ok |-> FALSE, err |-> e, out |-> o]
    IN  IF Len(p) # Len(a) THEN fail("NotConfigured", out)
        ELSE IF ~t.ok THEN fail(t.err, out)
        ELSE IF Len(a) = 0 THEN fail("NotConfigured", out)
        ELSE IF t.value < Len(a) THEN fail("ShapeMismatch", out)
        ELSE IF Len(preds) # info.num_row * t.value
             THEN fail("ShapeMismatch", Reshape(info.num_row, t.value))
        ELSE IF info.labelCols # 1 THEN fail("UnsupportedShape", out)
        ELSE [ok |-> TRUE, err |-> "",
              out |-> [shape |-> <<info.num_row, t.value>>,
                       data |-> [c \in Grid(info.num_row, t.value) |->
                                    GradientKernel(a, preds, t.value, info, c[1], c[2])]]]

GetGradientResult(p, a, preds, info, out) ==
    LET t == Targets(p, a, info)
        fail(e) == [ok |-> FALSE, err |-> e, out |-> out]
    IN  IF Len(p) # Len(a) THEN fail("NotConfigured")
        ELSE IF ~t.ok THEN fail(t.err)
        ELSE IF Len(a) = 0 THEN fail("NotConfigured")
        ELSE IF t.value < Len(a) THEN fail("ShapeMismatch")
        ELSE IF Len(preds) # info.num_row * t.value THEN fail("ShapeMismatch")
        ELSE IF info.labelCols # 1 THEN fail("UnsupportedShape")
        ELSE [ok |-> TRUE, err |-> "",
              out |-> [shape |-> <<info.num_row, t.value>>,
                       data |-> [c \in Grid(info.num_row, t.value) |->
                                    GradientKernel(a, preds, t.value, info, c[1], c[2])]]]

\* The instance states GetGradient is called in, each reachable under
\* SpecCfg: fresh; configured with one and with two levels; a Configure
\* rejected after a successful one (same length, and the empty list); and a
\* document holding a non-number loaded.
GradConfigs ==
    {[param |-> <<>>, alpha |-> <<>>],
     [param |-> <<<<1, 2>>>>, alpha |-> <<<<1, 2>>>>],
     [param |-> <<<<3, 4>>, <<1, 4>>>>, alpha |-> <<<<3, 4>>, <<1, 4>>>>],
     [param |-> <<NaN>>, alpha |-> <<<<1, 2>>>>],
     [param |-> <<>>, alpha |-> <<<<1, 2>>>>],
     [param |-> <<<<1, 2>>, NaN>>, alpha |-> <<<<1, 2>>, NaN>>]}

MaxGradLevels == CHOOSE n \in 0..3 : /\ \E c \in GradConfigs : Len(c.alpha) = n
                                     /\ \A c \in GradConfigs : Len(c.alpha) <= n

PredValues == {0, 1}

\* The buffer the caller hands in, left over from an earlier iteration.
StaleGpair == [shape |-> <<1, 1>>, data |-> [c \in Grid(1, 1) |-> <<RInt(7), RInt(7)>>]]

InitGrad ==
    /\ \E c \in GradConfigs : param_ = c.param /\ alpha_ = c.alpha
    /\ doc = NoDoc
    /\ docFrom = [param |-> <<>>, alpha |-> <<>>]
    /\ last = NoLast
    /\ \E info \in Infos(MaxRows, LabelColCounts, BOOLEAN) :
       \E n \in 0..(MaxRows * MaxGradLevels) :
       \E preds \in [1..n -> PredValues] :
           call = [preds |-> preds, info |-> info]
    /\ out_gpair = StaleGpair
    /\ gres = [called |-> FALSE, ok |-> TRUE, err |-> ""]
    /\ DistIdle

GetGradient ==
    /\ ~gres.called
    /\ LET r == GetGradientResult(param_, alpha_, call.preds, call.info, out_gpair)
       IN  /\ out_gpair' = r.out
           /\ gres' = [called |-> TRUE, ok |-> r.ok, err |-> r.err]
    /\ UNCHANGED <<cfgVars, call, distVars>>

NextGrad == GetGradient

SpecGrad == InitGrad /\ [][NextGrad]_vars

----------------------------------------------------------------------------
(* InitEstimation *)

Workers == {1, 2}

kRtEps == <<1, 1000000>>

\* The indices of v in ascending order of value, equal values in index order.
RECURSIVE InsertIdx(_, _, _)
InsertIdx(sorted, i, v) ==
    IF sorted = <<>> THEN <<i>>
    ELSE IF v[Head(sorted)] <= v[i] THEN <<Head(sorted)>> \o InsertIdx(Tail(sorted), i, v)
    ELSE <<i>> \o sorted

RECURSIVE ArgSortUpTo(_, _)
ArgSortUpTo(v, n) == IF n = 0 THEN <<>> ELSE InsertIdx(ArgSortUpTo(v, n - 1), n, v)

ArgSort(v) == ArgSortUpTo(v, Len(v))

Estimate(v) == [ok |-> TRUE, value |-> v]
NoEstimate == [ok |-> FALSE, value |-> NaN]

\* common::Quantile(ctx, alpha, begin, end): order-statistic interpolation.
\* It fails on an empty input and on a level that is no number in [0, 1].
Quantile(alpha, labels) ==
    LET n == Len(labels)
        idx == ArgSort(labels)
        val(i) == RInt(labels[idx[i]])
    IN  IF n = 0 THEN NoEstimate
        ELSE IF ~(RLeq(RInt(0), alpha) /\ RLeq(alpha, RInt(1))) THEN NoEstimate
        ELSE IF RLeq(alpha, Rat(1, n + 1)) THEN Estimate(val(1))
        ELSE IF RLeq(Rat(n, n + 1), alpha) THEN Estimate(val(n))
        ELSE LET x == RMul(alpha, RInt(n + 1))
                 k == RFloor(x) - 1
                 d == RSub(RSub(x, RInt(1)), RInt(k))
             IN  Estimate(RAdd(val(k + 1), RMul(d, RSub(val(k + 2), val(k + 1)))))

\* common::WeightedQuantile(ctx, alpha, begin, end, weights): the first label,
\* in ascending order, whose cumulative weight reaches alpha of the total.
WeightedQuantile(alpha, labels, weights) ==
    LET n == Len(labels)
        idx == ArgSort(labels)
        cdf == [i \in 1..n |-> RSumSeq([m \in 1..i |-> RInt(weights[idx[m]])])]
    IN  IF n = 0 THEN NoEstimate
        ELSE IF ~(RLeq(RInt(0), alpha) /\ RLeq(alpha, RInt(1))) THEN NoEstimate
        ELSE LET thresh == RMul(cdf[n], alpha)
                 hits == {i \in 1..n : RLeq(thresh, cdf[i])}
                 pos == CHOOSE i \in hits : \A m \in hits : i <= m
             IN  Estimate(RInt(labels[idx[pos]]))

\* sw: the row count without weights, else the sum of the weights.
SumOfWeights(info) ==
    IF info.weights = <<>> THEN RInt(info.num_row)
    ELSE RSumSeq([i \in 1..Len(info.weights) |-> RInt(info.weights[i])])

\* The host loop over the targets: quantiles(t) for t < n_targets, each
\* taken at param_.quantile_alpha[t].
LocalQuantiles(p, n_targets, info) ==
    [t \in 1..n_targets |->
        IF info.weights = <<>> THEN Quantile(p[t], info.labels)
        ELSE WeightedQuantile(p[t], info.labels, info.weights)]

\* common::Mean(ctx, *base_score, &temp)
Mean(v) == RDiv(RSumSeq(v), RInt(Len(v)))

\* dat{meanq, sw} with meanq = temp(0) * sw
LocalContribution_NoWeight(q, sw) == [made |-> TRUE, meanq |-> Mean(q), sw |-> sw]

LocalContribution(q, sw) == [made |-> TRUE, meanq |-> RMul(Mean(q), sw), sw |-> sw]

NoDat == [made |-> FALSE, meanq |-> RInt(0), sw |-> RInt(0)]

\* collective::GlobalSum over the workers' vectors: it returns, to every
\* worker, once every worker has contributed, with the element-wise sum.
GlobalSumReady == \A v \in Workers : dat[v].made

GlobalSum ==
    [meanq |-> RSumSeq([v \in 1..Cardinality(Workers) |-> dat[v].meanq]),
     sw |-> RSumSeq([v \in 1..Cardinality(Workers) |-> dat[v].sw])]

\* meanq /= (sw + kRtEps)
FinalScore_NoEps(d) == RDiv(d.meanq, d.sw)

FinalScore(d) == RDiv(d.meanq, RAdd(d.sw, kRtEps))

\* The instance states InitEstimation is called in, the same on every
\* worker: configured with one and with two levels, fresh, and a Configure
\* rejected after a successful one.
DistConfigs ==
    {[param |-> <<<<1, 2>>>>, alpha |-> <<<<1, 2>>>>],
     [param |-> <<<<3, 4>>, <<1, 4>>>>, alpha |-> <<<<3, 4>>, <<1, 4>>>>],
     [param |-> <<>>, alpha |-> <<>>],
     [param |-> <<NaN>>, alpha |-> <<<<1, 2>>>>]}

\* The shards: one label column and up to MaxRows rows, weighted or not; an
\* empty shard's label tensor may also have no column.
DistInfos == Infos(MaxRows, {1}, {TRUE}) \cup Infos(0, {0}, {TRUE})

InitDist ==
    /\ \E c \in DistConfigs : param_ = c.param /\ alpha_ = c.alpha
    /\ doc = NoDoc
    /\ docFrom = [param |-> <<>>, alpha |-> <<>>]
    /\ last = NoLast
    /\ GradIdle
    /\ shard \in [Workers -> DistInfos]
    /\ pc = [w \in Workers |-> "start"]
    /\ base_score = [w \in Workers |-> <<>>]
    /\ quantiles = [w \in Workers |-> <<>>]
    /\ dat = [w \in Workers |-> NoDat]
    /\ nsum = [w \in Workers |-> 0]
    /\ rc = [w \in Workers |-> "none"]

\* InitEstimation up to its call of GlobalSum: the checks, the local
\* estimates written into *base_score, and the contribution.
LocalFails(w, score) ==
    /\ pc' = [pc EXCEPT ![w] = "failed"]
    /\ base_score' = [base_score EXCEPT ![w] = score]
    /\ UNCHANGED <<cfgVars, gradVars, shard, quantiles, dat, nsum, rc>>

LocalContributes(w, q, sw) ==
    /\ pc' = [pc EXCEPT ![w] = "reducing"]
    /\ base_score' = [base_score EXCEPT ![w] = q]
    /\ quantiles' = [quantiles EXCEPT ![w] = q]
    /\ dat' = [dat EXCEPT ![w] = LocalContribution(q, sw)]
    /\ nsum' = [nsum EXCEPT ![w] = @ + 1]
    /\ UNCHANGED <<cfgVars, gradVars, shard, rc>>

InitEstimationLocal_EmptyShardZero(w) ==
    /\ pc[w] = "start"
    /\ LET info == shard[w]
           t == Targets(param_, alpha_, info)
           est == LocalQuantiles(param_, t.value, info)
           written == [i \in 1..t.value |->
                          IF \A m \in 1..i : est[m].ok THEN est[i].value ELSE RInt(0)]
       IN  IF alpha_ = <<>> THEN LocalFails(w, base_score[w])
           ELSE IF ~t.ok THEN LocalFails(w, base_score[w])
           ELSE IF info.num_row = 0
                THEN LocalContributes(w, [i \in 1..t.value |-> RInt(0)], RInt(0))
           ELSE IF \E i \in 1..t.value : ~est[i].ok THEN LocalFails(w, written)
           ELSE LocalContributes(w, written, SumOfWeights(info))

InitEstimationLocal(w) ==
    /\ pc[w] = "start"
    /\ LET info == shard[w]
           t == Targets(param_, alpha_, info)
           est == LocalQuantiles(param_, t.value, info)
           written == [i \in 1..t.value |->
                          IF \A m \in 1..i : est[m].ok THEN est[i].value ELSE RInt(0)]
       IN  IF alpha_ = <<>> THEN LocalFails(w, base_score[w])
           ELSE IF ~t.ok THEN LocalFails(w, base_score[w])
           ELSE IF \E i \in 1..t.value : ~est[i].ok THEN LocalFails(w, written)
           ELSE LocalContributes(w, written, SumOfWeights(info))

\* GlobalSum returns success: SafeColl passes, the sums are unpacked and the
\* base score becomes the one scalar meanq / (sw + kRtEps).
InitEstimationFinish_NoBarrier(w) ==
    /\ pc[w] = "reducing"
    /\ rc' = [rc EXCEPT ![w] = "ok"]
    /\ base_score' = [base_score EXCEPT ![w] = <<FinalScore(GlobalSum)>>]
    /\ pc' = [pc EXCEPT ![w] = "done"]
    /\ UNCHANGED <<cfgVars, gradVars, shard, quantiles, dat, nsum>>

InitEstimationFinish(w) ==
    /\ pc[w] = "reducing"
    /\ GlobalSumReady
    /\ rc' = [rc EXCEPT ![w] = "ok"]
    /\ base_score' = [base_score EXCEPT ![w] = <<FinalScore(GlobalSum)>>]
    /\ pc' = [pc EXCEPT ![w] = "done"]
    /\ UNCHANGED <<cfgVars, gradVars, shard, quantiles, dat, nsum>>

\* GlobalSum returns a communication error: SafeColl throws.
InitEstimationCommError_LocalFallback(w) ==
    /\ pc[w] = "reducing"
    /\ rc' = [rc EXCEPT ![w] = "error"]
    /\ base_score' = [base_score EXCEPT ![w] = <<FinalScore(dat[w])>>]
    /\ pc' = [pc EXCEPT ![w] = "done"]
    /\ UNCHANGED <<cfgVars, gradVars, shard, quantiles, dat, nsum>>

InitEstimationCommError(w) ==
    /\ pc[w] = "reducing"
    /\ rc' = [rc EXCEPT ![w] = "error"]
    /\ pc' = [pc EXCEPT ![w] = "failed"]
    /\ UNCHANGED <<cfgVars, gradVars, shard, base_score, quantiles, dat, nsum>>

NextDist ==
    \/ \E w \in Workers : InitEstimationLocal(w)
    \/ \E w \in Workers : InitEstimationFinish(w)
    \/ \E w \in Workers : InitEstimationCommError(w)

SpecDist == InitDist /\ [][NextDist]_vars

----------------------------------------------------------------------------
(* Properties of the configuration surface (SpecCfg) *)

TargetsCalled == last.op = "Targets" /\ Configured(param_, alpha_)

\* C2, as stated: on a configured objective Targets returns
\* |levels| * max(1, labelColumns) - |levels| for one label column and for
\* none - and fails exactly when labels are present with more than one column.
C2_TargetsAsStated ==
    TargetsCalled =>
        IF last.info.shouldHaveLabels /\ last.info.labelCols > 1
        THEN ~last.ok
        ELSE last.ok /\ last.value = Len(alpha_) * Max(1, last.info.labelCols)

\* C2, amended: on a configured objective, when the worker should have
\* labels Targets returns |levels| for exactly one label column and fails for
\* every other column count, zero included; when it should not have labels
\* Targets returns |levels| * max(1, labelColumns) and does not fail.
C2_Targets ==
    TargetsCalled =>
        IF last.info.shouldHaveLabels
        THEN /\ last.ok <=> last.info.labelCols = 1
             /\ last.ok => last.value = Len(alpha_)
        ELSE last.ok /\ last.value = Len(alpha_) * Max(1, last.info.labelCols)

C2_Witness ==
    /\ TargetsCalled
    /\ last.info.shouldHaveLabels
    /\ last.info.labelCols = 0
    /\ ~last.ok

RoundTripLoaded ==
    /\ last.op = "LoadConfig"
    /\ last.in = "saved"
    /\ last.fresh
    /\ Configured(docFrom.param, docFrom.alpha)

\* C3: SaveConfig on an instance configured with level list L, then
\* LoadConfig of that document into a fresh instance, succeeds and leaves an
\* instance whose level list is L and which is configured; LoadConfig of a
\* document with another name tag fails.
C3_RoundTrip ==
    /\ RoundTripLoaded =>
          /\ last.ok
          /\ param_ = docFrom.alpha
          /\ alpha_ = docFrom.alpha
          /\ Configured(param_, alpha_)
    /\ (last.op = "LoadConfig" /\ last.in = "renamed") => ~last.ok

\* The round trip of an instance whose parameter and cached levels agreed
\* when it was saved.
RoundTripInSync ==
    (RoundTripLoaded /\ docFrom.param = docFrom.alpha) =>
        /\ last.ok
        /\ param_ = docFrom.alpha
        /\ alpha_ = docFrom.alpha
        /\ Configured(param_, alpha_)

RoundTripInSyncReached ==
    /\ RoundTripLoaded
    /\ docFrom.param = docFrom.alpha
    /\ Len(alpha_) = 3

\* C10: after any sequence of Configure and LoadConfig calls, failing ones
\* included, the cached level vector alpha_ equals the parameter's
\* quantile_alpha list.
C10_AlphaInSync == alpha_ = param_

\* C10, second half: a configured objective stays configured.
C10_StaysConfigured ==
    [][Configured(param_, alpha_) /\ last'.op \in {"Configure", "LoadConfig"}
           => Configured(param_', alpha_')]_vars

----------------------------------------------------------------------------
(* Properties of GetGradient (SpecGrad) *)

GradOk == gres.called /\ gres.ok

\* C1: in a successful GetGradient call every cell (i, j) holds hessian
\* weight(i) (1 without weights) and gradient (1 - alpha_j) * weight(i) when
\* prediction(i, j) - label(i) >= 0, -alpha_j * weight(i) when it is < 0.
C1_Gradient ==
    GradOk =>
        \A i \in 1..call.info.num_row : \A j \in 1..Len(alpha_) :
            LET d == call.preds[(i - 1) * Len(alpha_) + j] - call.info.labels[i]
                w == IF call.info.weights = <<>> THEN <<1, 1>>
                     ELSE <<call.info.weights[i], 1>>
                g == out_gpair.data[<<i, j>>][1]
                h == out_gpair.data[<<i, j>>][2]
            IN  /\ h = w
                /\ d >= 0 => g = RMul(RSub(<<1, 1>>, alpha_[j]), w)
                /\ d < 0 => g = RMul(RSub(<<0, 1>>, alpha_[j]), w)

\* A successful call on two levels and weighted rows with a cell at d = 0,
\* one above and one below.
C1_Witness ==
    /\ GradOk
    /\ alpha_ = <<<<3, 4>>, <<1, 4>>>>
    /\ call.info.num_row = 2
    /\ call.info.weights = <<2, 1>>
    /\ call.info.labels = <<1, 0>>
    /\ call.preds = <<1, 0, 1, 0>>
    /\ out_gpair.data[<<1, 1>>] = <<<<1, 2>>, <<2, 1>>>>
    /\ out_gpair.data[<<1, 2>>] = <<<<-1, 2>>, <<2, 1>>>>
    /\ out_gpair.data[<<2, 1>>] = <<<<1, 4>>, <<1, 1>>>>

TargetCount == Len(alpha_) * Max(1, call.info.labelCols)

\* C9: GetGradient fails when the objective is not configured, when the
\* prediction buffer size differs from rows * target count, or when the
\* labels do not have exactly one column; a failing call leaves the caller's
\* buffer as it was, a succeeding one leaves it rows x target count with
\* every cell written.
C9_NoPartialSuccess ==
    gres.called =>
        /\ (\/ ~Configured(param_, alpha_)
            \/ Len(call.preds) # call.info.num_row * TargetCount
            \/ call.info.labelCols # 1) => ~gres.ok
        /\ ~gres.ok => out_gpair = StaleGpair
        /\ gres.ok =>
              /\ out_gpair.shape = <<call.info.num_row, TargetCount>>
              /\ DOMAIN out_gpair.data = Grid(call.info.num_row, TargetCount)
              /\ \A c \in DOMAIN out_gpair.data :
                    out_gpair.data[c][2] \in {<<1, 1>>, <<2, 1>>}

\* A call that fails on the prediction buffer's size alone, and one that
\* succeeds on a 2 x 2 grid.
C9_Witness ==
    /\ gres.called
    /\ ~gres.ok
    /\ Configured(param_, alpha_)
    /\ call.info.labelCols = 1
    /\ call.info.num_row = 2
    /\ Len(call.preds) = 1
    /\ out_gpair = StaleGpair

C9_WitnessOk ==
    /\ GradOk
    /\ out_gpair.shape = <<2, 2>>

----------------------------------------------------------------------------
(* Properties of InitEstimation (SpecDist) *)

AllDone == \A w \in Workers : pc[w] = "done"

\* The row count when the worker has no weights, else the sum of its weights.
LocalWeightSum(w) ==
    IF shard[w].weights = <<>> THEN <<shard[w].num_row, 1>>
    ELSE RSumSeq([i \in 1..shard[w].num_row |-> <<shard[w].weights[i], 1>>])

\* The arithmetic mean of worker w's per-level estimates.
MeanOfQuantiles(w) ==
    RDiv(RSumSeq(quantiles[w]), <<Len(quantiles[w]), 1>>)

\* C4: every worker that returns from a successful reduction holds the one
\* scalar (sum_w meanOfQuantiles_w * localWeightSum_w) /
\* (sum_w localWeightSum_w + epsilon).
C4_Aggregation ==
    \A w \in Workers :
        pc[w] = "done" =>
            base_score[w] =
                <<RDiv(RAdd(RMul(MeanOfQuantiles(1), LocalWeightSum(1)),
                            RMul(MeanOfQuantiles(2), LocalWeightSum(2))),
                       RAdd(RAdd(LocalWeightSum(1), LocalWeightSum(2)),
                            <<1, 1000000>>))>>

\* Both workers done on two levels, with different shards, one weighted.
C4_Witness ==
    /\ AllDone
    /\ Len(alpha_) = 2
    /\ shard[1].weights = <<2, 1>>
    /\ shard[1].labels = <<0, 1>>
    /\ shard[2].weights = <<>>
    /\ shard[2].labels = <<1>>
    /\ MeanOfQuantiles(1) # MeanOfQuantiles(2)
    /\ base_score[1] = base_score[2]

\* The two shards as one dataset, worker 1's rows first.
Concat ==
    [num_row |-> shard[1].num_row + shard[2].num_row,
     labelCols |-> 1,
     labels |-> shard[1].labels \o shard[2].labels,
     weights |-> shard[1].weights \o shard[2].weights,
     shouldHaveLabels |-> TRUE]

\* The shards are a split of one dataset: weighted on both sides or on none.
IsSplit == (shard[1].weights = <<>>) <=> (shard[2].weights = <<>>)

\* InitEstimation by a single process, whose reduction returns its own vector.
SingleQuantiles(info) ==
    LET est == LocalQuantiles(param_, Len(alpha_), info)
    IN  [t \in 1..Len(alpha_) |-> est[t].value]

SingleProcess(info) ==
    FinalScore(LocalContribution(SingleQuantiles(info), SumOfWeights(info)))

\* C5, as stated: for every split of a dataset into two shards the base
\* score combined across the 2 workers is the one a single process computes
\* over the concatenation.
C5_MatchesSingleProcess ==
    (AllDone /\ IsSplit) => base_score[1] = <<SingleProcess(Concat)>>

\* C5, amended: the combined base score is the single process's whenever each
\* worker's local mean of quantile estimates equals the mean of the quantile
\* estimates over the concatenation (as when all labels are equal).
C5_MatchesWhenMeansAgree ==
    (/\ AllDone
     /\ IsSplit
     /\ MeanOfQuantiles(1) = Mean(SingleQuantiles(Concat))
     /\ MeanOfQuantiles(2) = Mean(SingleQuantiles(Concat)))
        => /\ base_score[1] = <<SingleProcess(Concat)>>
           /\ base_score[2] = <<SingleProcess(Concat)>>

\* A split with unequal labels and non-zero means on which the two agree.
C5_Witness ==
    /\ AllDone
    /\ IsSplit
    /\ MeanOfQuantiles(1) = Mean(SingleQuantiles(Concat))
    /\ MeanOfQuantiles(2) = Mean(SingleQuantiles(Concat))
    /\ shard[1].labels = <<0, 1>>
    /\ shard[2].labels = <<1, 0>>
    /\ base_score[1] = <<SingleProcess(Concat)>>

\* C6: no worker returns from the reduction with its final base score
\* before every worker has finished its local estimation and contributed.
C6_Barrier ==
    \A w \in Workers :
        pc[w] = "done" =>
            \A v \in Workers : dat[v].made /\ quantiles[v] # <<>> /\ pc[v] # "start"

\* One worker is done while the other, having contributed, is still inside
\* the reduction.
C6_Witness ==
    /\ pc[1] = "done"
    /\ pc[2] = "reducing"
    /\ dat[2].made

\* C7: a worker to which the reduction reports a communication error fails:
\* it entered the reduction once, it is never done, and its buffer holds no
\* final base score, only the local estimates it had written.
C7_CommErrorIsFatal ==
    \A w \in Workers :
        rc[w] = "error" =>
            /\ pc[w] = "failed"
            /\ nsum[w] = 1
            /\ base_score[w] = quantiles[w]

\* The error reaches worker 1 while worker 2 has not contributed yet.
C7_Witness ==
    /\ rc[1] = "error"
    /\ pc[1] = "failed"
    /\ pc[2] = "start"
    /\ Len(quantiles[1]) = 2

\* C8: a worker whose shard has no sample never produces per-level
\* estimates and never contributes to the reduction.
C8_EmptyShardFails ==
    \A w \in Workers :
        shard[w].num_row = 0 =>
            /\ pc[w] \in {"start", "failed"}
            /\ quantiles[w] = <<>>
            /\ ~dat[w].made
            /\ nsum[w] = 0

\* A configured worker with an empty one-column shard has failed, and the
\* other worker, having contributed, waits in the reduction.
C8_Witness ==
    /\ Configured(param_, alpha_)
    /\ param_ = alpha_
    /\ shard[1].num_row = 0
    /\ shard[1].labelCols = 1
    /\ pc[1] = "failed"
    /\ pc[2] = "reducing"

====
